---- MODULE Spec2Model ----
(***************************************************************************)
(* A model of the depth-5 order book (src/src/order_book.rs, item.rs) and  *)
(* of the KuCoin ingestion pipeline that feeds it (src/src/api.rs,         *)
(* main.rs).                                                               *)
(*                                                                         *)
(* Two specifications:                                                     *)
(*   BookSpec  a caller that drives OrderBook::update / OrderBook::print   *)
(*             directly (as src/src/ob_test.rs does);                      *)
(*   Spec      one run of main -> start_websocket_listener, the transport  *)
(*             and the HTTP endpoint being the environment.                *)
(***************************************************************************)
EXTENDS Integers, Sequences, FiniteSets, TLC

(***************************************************************************)
(* Bounds of the model.                                                    *)
(***************************************************************************)
\* longest argument vector / JSON array the environment supplies
MaxArrLen == 6
\* longest vector for which every vector over the sample pairs is supplied
MaxShortLen == 1
\* sizes (i64) range over 0..MaxSize
MaxSize == 2
\* most print calls a direct caller makes between two update calls
MaxPrints == 2

\* `take(5)` in update_order_book
MAX_DEPTH == 5

(***************************************************************************)
(* Option<T>: None is <<>>, Some(v) is <<v>>.                              *)
(***************************************************************************)
None == <<>>
Some(v) == <<v>>
unwrap_or(o, d) == IF o = None THEN d ELSE o[1]

(***************************************************************************)
(* f64, as a sign bit over a magnitude (the layout f64::total_cmp reads).  *)
(* Magnitudes 0..MaxMag are the finite values 0.0, 1.0, ..; the magnitude  *)
(* above them stands for the NaN payload.  A value is the integer          *)
(* sign * SignBit + magnitude, as to_bits() returns it.                    *)
(***************************************************************************)
MaxMag == MaxArrLen + 1
NaNMag == MaxMag + 1
SignBit == NaNMag + 1

F64 == 0 .. (2 * SignBit - 1)
IsNeg(x) == x >= SignBit
Mag(x) == IF IsNeg(x) THEN x - SignBit ELSE x
IsNaN(x) == Mag(x) = NaNMag

PosZero == 0
NegZero == SignBit
NaN == NaNMag
Fin(n) == IF n < 0 THEN SignBit + (0 - n) ELSE n

\* f64::total_cmp: the bits as a signed integer, the magnitude bits of a
\* negative value flipped, then an integer comparison.
TotalKey(x) == IF IsNeg(x) THEN (0 - Mag(x)) - 1 ELSE Mag(x)
total_cmp(x, y) ==
    IF TotalKey(x) < TotalKey(y) THEN "Less"
    ELSE IF TotalKey(x) > TotalKey(y) THEN "Greater"
    ELSE "Equal"

\* f64 == f64 (IEEE): NaN equals nothing, -0.0 equals +0.0.
F64Eq(x, y) ==
    /\ ~IsNaN(x)
    /\ ~IsNaN(y)
    /\ \/ x = y
       \/ Mag(x) = 0 /\ Mag(y) = 0

\* f64::to_string for the modelled values
F64ToString(x) ==
    IF IsNaN(x) THEN "NaN"
    ELSE IF IsNeg(x) THEN "-" \o ToString(Mag(x))
    ELSE ToString(Mag(x))

I64ToString(n) == ToString(n)

(***************************************************************************)
(* Item (item.rs).                                                         *)
(***************************************************************************)
Item(p, s) == [price |-> p, size |-> s]

\* impl Ord for Item
cmp(a, b) == total_cmp(a.price, b.price)

\* derived PartialEq for Item: field by field
ItemEq(a, b) == F64Eq(a.price, b.price) /\ a.size = b.size

(***************************************************************************)
(* BTreeSet<Item>, held as the sequence its in-order iteration yields.     *)
(***************************************************************************)
Contains(set, x) == \E i \in 1..Len(set) : cmp(set[i], x) = "Equal"

\* number of elements that order before x
Rank(set, x) == Cardinality({i \in 1..Len(set) : cmp(set[i], x) = "Less"})

InsertAt(set, k, x) ==
    [i \in 1..(Len(set) + 1) |->
        IF i <= k THEN set[i] ELSE IF i = k + 1 THEN x ELSE set[i - 1]]

\* a Vec::push in place of the set insertion
InsertAppend(set, x) == Append(set, x)

\* an insertion that overwrites the stored element
InsertReplacing(set, x) ==
    IF Contains(set, x)
    THEN [i \in 1..Len(set) |-> IF cmp(set[i], x) = "Equal" THEN x ELSE set[i]]
    ELSE InsertAt(set, Rank(set, x), x)

\* BTreeSet::insert: an element that compares Equal to one already in the
\* set is not inserted and the stored element is kept.
Insert(set, x) ==
    IF Contains(set, x) THEN set ELSE InsertAt(set, Rank(set, x), x)

RECURSIVE InsertAll(_, _)
InsertAll(set, levels) ==
    IF levels = <<>> THEN set
    ELSE InsertAll(Insert(set, Item(Head(levels)[1], Head(levels)[2])), Tail(levels))

(***************************************************************************)
(* OrderBook (order_book.rs): a pair of sides.                             *)
(***************************************************************************)
OrderBook_new == [bids |-> <<>>, asks |-> <<>>]

\* OrderBook::update with the clear() calls dropped: a merge
UpdateMerging(ob, bidArgs, askArgs) ==
    [bids |-> InsertAll(ob.bids, bidArgs), asks |-> InsertAll(ob.asks, askArgs)]

\* OrderBook::update that leaves a side alone when its argument is empty
UpdateSkippingEmptySide(ob, bidArgs, askArgs) ==
    [bids |-> IF bidArgs = <<>> THEN ob.bids ELSE InsertAll(<<>>, bidArgs),
     asks |-> IF askArgs = <<>> THEN ob.asks ELSE InsertAll(<<>>, askArgs)]

OrderBook_update(ob, bidArgs, askArgs) ==
    [bids |-> InsertAll(<<>>, bidArgs), asks |-> InsertAll(<<>>, askArgs)]

\* the asks walked forward, as the bids are
ReverseNot(s) == s

\* Iterator::rev
Reverse(s) == [i \in 1..Len(s) |-> s[Len(s) + 1 - i]]

HeaderRow == <<"Type", "Symbol", "Price", "Contract size">>
BookRow(label, item) ==
    <<label, "ETHUSDTM", F64ToString(item.price), I64ToString(item.size)>>

\* OrderBook::print: the table written to standard output
OrderBook_print(ob) ==
    <<HeaderRow>>
    \o [i \in 1..Len(ob.bids) |-> BookRow("Bids", ob.bids[i])]
    \o [i \in 1..Len(ob.asks) |-> BookRow("Asks", Reverse(ob.asks)[i])]

(***************************************************************************)
(* serde_json::Value, as far as update_order_book reads it.  A value is a  *)
(* record of one shape: t its kind, v its number, s its text.              *)
(***************************************************************************)
JNull == [t |-> "null", v |-> 0, s |-> ""]
\* an integer literal (serde_json's N::PosInt / N::NegInt)
JInt(n) == [t |-> "int", v |-> n, s |-> ""]
\* a literal with a fraction or an exponent (N::Float), never NaN
JFloat(x) == [t |-> "float", v |-> x, s |-> ""]
JStr(str) == [t |-> "str", v |-> 0, s |-> str]

as_f64(j) ==
    IF j.t = "int" THEN Some(Fin(j.v))
    ELSE IF j.t = "float" THEN Some(j.v)
    ELSE None

as_i64(j) == IF j.t = "int" THEN Some(j.v) ELSE None

as_str(j) == IF j.t = "str" THEN Some(j.s) ELSE None

\* the texts str::parse::<f64> accepts, each with its value: "NaN", or an
\* optional sign, digits and an optional fraction of zero
F64Texts ==
    {<<"NaN", NaN>>}
    \cup {<<(IF IsNeg(x) THEN "-" ELSE "") \o ToString(Mag(x)) \o frac, x>> :
             x \in {y \in F64 : ~IsNaN(y)}, frac \in {"", ".0"}}
F64OfText == [str \in {p[1] : p \in F64Texts} |->
                 (CHOOSE p \in F64Texts : p[1] = str)[2]]

\* str::parse::<f64> on the texts the environment sends
ParseF64(str) ==
    IF str \in DOMAIN F64OfText THEN Some(F64OfText[str]) ELSE None

\* the texts str::parse::<i64> accepts: digits only, no fraction
I64OfText == [str \in {ToString(n) : n \in 0..MaxMag} |->
                 CHOOSE n \in 0..MaxMag : ToString(n) = str]

\* str::parse::<i64> on the same texts
ParseI64(str) ==
    IF str \in DOMAIN I64OfText THEN Some(I64OfText[str]) ELSE None

\* .and_then(|s| s.parse::<f64>().ok()) and its i64 twin
and_then_parse_f64(o) == IF o = None THEN None ELSE ParseF64(o[1])
and_then_parse_i64(o) == IF o = None THEN None ELSE ParseI64(o[1])

\* value[i] on an array: Null when the index is out of range.  An entry that
\* is no array at all indexes to Null as well, as the empty array does.
Index(arr, i) == IF (i + 1) \in DOMAIN arr THEN arr[i + 1] ELSE JNull

\* extraction without the string fallback (as api_test.rs 33 has it)
ExtractPriceNativeOnly(entry) == unwrap_or(as_f64(Index(entry, 0)), PosZero)

\* api.rs 62-64 / 74-76
ExtractPrice(entry) ==
    unwrap_or(as_f64(Index(entry, 0)),
              unwrap_or(and_then_parse_f64(as_str(Index(entry, 0))), PosZero))

\* api.rs 65-67 / 77-79
ExtractSize(entry) ==
    unwrap_or(as_i64(Index(entry, 1)),
              unwrap_or(and_then_parse_i64(as_str(Index(entry, 1))), 0))

\* no take at all
TakeAll(s, n) == s

\* Iterator::take
Take(s, n) == SubSeq(s, 1, IF Len(s) < n THEN Len(s) ELSE n)

\* json_data["data"]["bids"] / ["asks"]: absent, present but no array, or an
\* array of entries
FieldAbsent == [t |-> "absent", items |-> <<>>]
FieldOther == [t |-> "other", items |-> <<>>]
FieldArray(entries) == [t |-> "array", items |-> entries]

as_array(field) == IF field.t = "array" THEN Some(field.items) ELSE None

\* api.rs 60-70 / 72-82: the vector pushed for one side
ExtractLevels(field) ==
    IF as_array(field) = None THEN <<>>
    ELSE LET arr == Take(as_array(field)[1], MAX_DEPTH)
         IN  [i \in 1..Len(arr) |-> <<ExtractPrice(arr[i]), ExtractSize(arr[i])>>]

(***************************************************************************)
(* What the environment supplies.                                          *)
(***************************************************************************)
SeqsUpTo(S, n) == UNION {[1..k -> S] : k \in 0..n}

SizeSamples == {1, MaxSize}

\* arguments of a direct OrderBook::update call: (price, size) pairs
PairSamples == {PosZero, NegZero, NaN} \X SizeSamples
AscArgs(k) == [i \in 1..k |-> <<Fin(i), i % (MaxSize + 1)>>]
DescArgs(k) == [i \in 1..k |-> <<Fin(k + 1 - i), i % (MaxSize + 1)>>]
\* every price twice in a row, the sizes differing
DupArgs(k) == [i \in 1..k |-> <<Fin((i + 1) \div 2), i % (MaxSize + 1)>>]
ZeroArgs == <<<<PosZero, 1>>, <<NegZero, MaxSize>>, <<NaN, 1>>, <<PosZero, MaxSize>>>>
ArgSamples ==
    SeqsUpTo(PairSamples, MaxShortLen)
    \cup {AscArgs(k) : k \in 2..MaxArrLen}
    \cup {DescArgs(k) : k \in 2..MaxArrLen}
    \cup {DupArgs(k) : k \in 2..MaxArrLen}
    \cup {ZeroArgs}
FewArgs == {<<>>, <<<<Fin(1), 1>>>>}
\* one side ranges over every sample while the other ranges over a few
ArgPairs == (ArgSamples \X FewArgs) \cup (FewArgs \X ArgSamples)

\* entries of a bids / asks array: [price, size]
EntrySamples ==
    { <<JFloat(Fin(1)), JInt(1)>>,
      <<JStr("1.0"), JStr("2")>>,
      <<JStr("bad"), JStr("bad")>>,
      <<JFloat(NegZero), JStr("1")>>,
      <<JStr("NaN"), JFloat(Fin(1))>> }
AscEntries(k) == [i \in 1..k |-> <<JInt(i), JInt(i % (MaxSize + 1))>>]
DescEntries(k) == [i \in 1..k |-> <<JInt(k + 1 - i), JInt(i % (MaxSize + 1))>>]
\* every price twice in a row, once as a number and once as text
DupEntries(k) ==
    [i \in 1..k |->
        IF i % 2 = 1 THEN <<JInt((i + 1) \div 2), JInt(i % (MaxSize + 1))>>
        ELSE <<JStr(ToString((i + 1) \div 2)), JInt(i % (MaxSize + 1))>>]
\* an empty entry, an entry without a size, a well-formed one
BrokenEntries == <<<<>>, <<JInt(2)>>, <<JInt(1), JInt(1)>>>>
\* numbers sent as text, an entry of no use between them, a native entry
MixedEntries ==
    << <<JStr("2.0"), JStr("1")>>,
       <<JStr("bad"), JStr("bad")>>,
       <<JStr("-0.0"), JStr("2")>>,
       <<JInt(1), JInt(2)>> >>
ArraySamples ==
    SeqsUpTo(EntrySamples, MaxShortLen)
    \cup {AscEntries(k) : k \in 2..MaxArrLen}
    \cup {DescEntries(k) : k \in 2..MaxArrLen}
    \cup {DupEntries(k) : k \in 2..MaxArrLen}
    \cup {BrokenEntries, MixedEntries}
FieldSamples == {FieldAbsent, FieldOther} \cup {FieldArray(a) : a \in ArraySamples}
FewFields == {FieldAbsent, FieldArray(<<<<JStr("2"), JInt(1)>>>>)}
\* one side ranges over every sample while the other ranges over a few
FieldPairs ==
    (FieldSamples \X FewFields) \cup (FewFields \X FieldSamples)
    \cup {<<FieldOther, FieldOther>>}

\* the text of a frame: not JSON at all, or a JSON object with its "type"
\* member (Null when absent) and its data.bids / data.asks members
MalformedBody ==
    [json |-> FALSE, type |-> JNull, bids |-> FieldAbsent, asks |-> FieldAbsent]
JsonBody(ty, b, a) == [json |-> TRUE, type |-> ty, bids |-> b, asks |-> a]

DataBodies == {JsonBody(JStr("message"), fp[1], fp[2]) : fp \in FieldPairs}
OtherBodies ==
    {JsonBody(ty, fp[1], fp[2]) :
        ty \in {JStr("ack"), JStr("welcome"), JNull},
        fp \in {<<FieldAbsent, FieldAbsent>>,
                <<FieldArray(AscEntries(1)), FieldArray(AscEntries(2))>>}}

\* what read.next().await yields: Option<Result<Message, Error>>
TextFrame(body) == [kind |-> "Text", body |-> body]
CloseFrame == [kind |-> "Close", body |-> MalformedBody]
\* Binary, Ping, Pong, Frame
OtherFrame == [kind |-> "Other", body |-> MalformedBody]
ErrFrame == [kind |-> "Err", body |-> MalformedBody]
StreamEnd == [kind |-> "None", body |-> MalformedBody]

Frames ==
    {TextFrame(b) : b \in DataBodies \cup OtherBodies \cup {MalformedBody}}
    \cup {CloseFrame, OtherFrame, ErrFrame, StreamEnd}

\* the answer to POST /api/v1/bullet-public
CredResponse(http, json, endpoint, token) ==
    [http |-> http, json |-> json, endpoint |-> endpoint, token |-> token]
CredResponses ==
    {CredResponse(FALSE, FALSE, FALSE, FALSE), CredResponse(TRUE, FALSE, FALSE, FALSE)}
    \cup {CredResponse(TRUE, TRUE, e, t) : e \in BOOLEAN, t \in BOOLEAN}

(***************************************************************************)
(* State.                                                                  *)
(***************************************************************************)
VARIABLES
    ob,         \* the OrderBook main owns
    stdout,     \* the tables the last step wrote to standard output
    rendered,   \* whether any table has been written so far
    calls,      \* the OrderBook methods the last step called, in order
    callBids,   \* `bids` argument of the last OrderBook::update call
    callAsks,   \* `asks` argument of the last OrderBook::update call
    had,        \* whether each side held entries when that call began
    nPrints,    \* OrderBook::print calls since that call
    pc,         \* where start_websocket_listener stands
    cred,       \* the credential response (`json_data`, api.rs 134)
    msg,        \* the value read.next().await yielded last
    result,     \* what start_websocket_listener returned
    diag,       \* the diagnostic of a failure
    endCause,   \* why the receive loop was left
    mainResult, \* what main returned
    nCredReq,   \* credential requests sent
    nConnect,   \* connect_async calls
    nSubSend    \* subscription requests sent

bookVars == <<ob, stdout, rendered, calls, callBids, callAsks, had, nPrints>>
pipeVars == <<pc, cred, msg, result, diag, endCause, mainResult,
              nCredReq, nConnect, nSubSend>>
vars == <<ob, stdout, rendered, calls, callBids, callAsks, had, nPrints,
          pc, cred, msg, result, diag, endCause, mainResult,
          nCredReq, nConnect, nSubSend>>

Had(book) == [bids |-> book.bids # <<>>, asks |-> book.asks # <<>>]

\* main.rs 12: OrderBook::new(), nothing requested yet
Init ==
    /\ ob = OrderBook_new
    /\ stdout = <<>>
    /\ rendered = FALSE
    /\ calls = <<>>
    /\ callBids = <<>>
    /\ callAsks = <<>>
    /\ had = Had(OrderBook_new)
    /\ nPrints = 0
    /\ pc = "Init"
    /\ cred = CredResponse(FALSE, FALSE, FALSE, FALSE)
    /\ msg = StreamEnd
    /\ result = "Running"
    /\ diag = ""
    /\ endCause = ""
    /\ mainResult = "Running"
    /\ nCredReq = 0
    /\ nConnect = 0
    /\ nSubSend = 0

(***************************************************************************)
(* BookSpec: direct calls, ob_test.rs 56-58.                               *)
(***************************************************************************)
BookUpdate(b, a) ==
    /\ ob' = OrderBook_update(ob, b, a)
    /\ callBids' = b
    /\ callAsks' = a
    /\ had' = Had(ob)
    /\ calls' = <<"update">>
    /\ stdout' = <<>>
    /\ nPrints' = 0
    /\ UNCHANGED <<rendered, pipeVars>>

\* a print that takes the asks out of the set as it walks them
BookPrintDraining ==
    /\ nPrints < MaxPrints
    /\ nPrints' = nPrints + 1
    /\ stdout' = <<OrderBook_print(ob)>>
    /\ ob' = [ob EXCEPT !.asks = <<>>]
    /\ rendered' = TRUE
    /\ calls' = <<"print">>
    /\ UNCHANGED <<callBids, callAsks, had, pipeVars>>

\* OrderBook::print (order_book.rs 62-90) called by the owner of the book;
\* it takes &self
BookPrint ==
    /\ nPrints < MaxPrints
    /\ nPrints' = nPrints + 1
    /\ stdout' = <<OrderBook_print(ob)>>
    /\ rendered' = TRUE
    /\ calls' = <<"print">>
    /\ UNCHANGED <<ob, callBids, callAsks, had, pipeVars>>

BookNext ==
    \/ \E ap \in ArgPairs : BookUpdate(ap[1], ap[2])
    \/ BookPrint

BookSpec == Init /\ [][BookNext]_vars

(***************************************************************************)
(* start_websocket_listener (api.rs 127-198), one action per await.        *)
(***************************************************************************)
\* the function returns Err(..) (a `?`) or unwinds (an `expect`)
Fail(how, why) ==
    /\ pc' = "Terminated"
    /\ result' = how
    /\ diag' = why

Quiet ==
    /\ calls' = <<>>
    /\ stdout' = <<>>
    /\ UNCHANGED <<ob, rendered, callBids, callAsks, had, nPrints>>

\* api.rs 132-134: the POST, the body, serde_json::from_str, each with `?`
FetchCredential(resp) ==
    /\ pc = "Init"
    /\ nCredReq' = nCredReq + 1
    /\ cred' = resp
    /\ IF resp.http /\ resp.json
       THEN pc' = "CredentialFetched" /\ UNCHANGED <<result, diag>>
       ELSE Fail("Err", "request")
    /\ Quiet
    /\ UNCHANGED <<msg, endCause, mainResult, nConnect, nSubSend>>

\* the token test left out
CredentialErrorUrlOnly(c) ==
    IF ~c.endpoint THEN "WebSocket URL not found" ELSE ""

\* api.rs 137-143: "" when both members are found
CredentialError(c) ==
    IF ~c.endpoint THEN "WebSocket URL not found"
    ELSE IF ~c.token THEN "WebSocket Token not found"
    ELSE ""

\* api.rs 137-147
ExtractCredential ==
    /\ pc = "CredentialFetched"
    /\ IF CredentialError(cred) = ""
       THEN pc' = "Connecting" /\ UNCHANGED <<result, diag>>
       ELSE Fail("Err", CredentialError(cred))
    /\ Quiet
    /\ UNCHANGED <<cred, msg, endCause, mainResult, nCredReq, nConnect, nSubSend>>

\* api.rs 150: connect_async(..).await.expect(..)
Connect(ok) ==
    /\ pc = "Connecting"
    /\ nConnect' = nConnect + 1
    /\ IF ok
       THEN pc' = "Connected" /\ UNCHANGED <<result, diag>>
       ELSE Fail("Panic", "Failed to connect to WebSocket")
    /\ Quiet
    /\ UNCHANGED <<cred, msg, endCause, mainResult, nCredReq, nSubSend>>

\* api.rs 156-164: write.send(..).await.expect(..)
Subscribe(ok) ==
    /\ pc = "Connected"
    /\ nSubSend' = nSubSend + 1
    /\ IF ok
       THEN pc' = "AwaitAck" /\ UNCHANGED <<result, diag>>
       ELSE Fail("Panic", "Failed to send subscription message")
    /\ Quiet
    /\ UNCHANGED <<cred, msg, endCause, mainResult, nCredReq, nConnect>>

\* a handshake that treats its frame as the receive loop would
AwaitAckApplying(frame) ==
    /\ pc = "AwaitAck"
    /\ msg' = frame
    /\ pc' = "Streaming"
    /\ IF frame.kind = "Text" /\ frame.body.json /\ frame.body.type = JStr("message")
       THEN /\ callBids' = ExtractLevels(frame.body.bids)
            /\ callAsks' = ExtractLevels(frame.body.asks)
            /\ had' = Had(ob)
            /\ ob' = OrderBook_update(ob, callBids', callAsks')
            /\ stdout' = <<OrderBook_print(ob')>>
            /\ rendered' = TRUE
            /\ nPrints' = 1
            /\ calls' = <<"update", "print">>
       ELSE Quiet
    /\ UNCHANGED <<cred, result, diag, endCause, mainResult,
                   nCredReq, nConnect, nSubSend>>

\* api.rs 167-171: one read, whatever it yields is at most logged
AwaitAck(frame) ==
    /\ pc = "AwaitAck"
    /\ msg' = frame
    /\ pc' = "Streaming"
    /\ Quiet
    /\ UNCHANGED <<cred, result, diag, endCause, mainResult,
                   nCredReq, nConnect, nSubSend>>

\* update_order_book that applies a message only when it has both arrays
UpdateOnlyWhenBothSides(book, json) ==
    IF as_array(json.bids) # None /\ as_array(json.asks) # None
    THEN /\ callBids' = ExtractLevels(json.bids)
         /\ callAsks' = ExtractLevels(json.asks)
         /\ had' = Had(book)
         /\ ob' = OrderBook_update(book, callBids', callAsks')
         /\ stdout' = <<OrderBook_print(ob')>>
         /\ rendered' = TRUE
         /\ nPrints' = 1
         /\ calls' = <<"update", "print">>
    ELSE Quiet

\* update_order_book printing the book before it updates it
UpdatePrintingFirst(book, json) ==
    /\ callBids' = ExtractLevels(json.bids)
    /\ callAsks' = ExtractLevels(json.asks)
    /\ had' = Had(book)
    /\ stdout' = <<OrderBook_print(book)>>
    /\ ob' = OrderBook_update(book, callBids', callAsks')
    /\ rendered' = TRUE
    /\ nPrints' = 0
    /\ calls' = <<"print", "update">>

\* update_order_book (api.rs 55-86): extract, update, print
update_order_book(book, json) ==
    /\ callBids' = ExtractLevels(json.bids)
    /\ callAsks' = ExtractLevels(json.asks)
    /\ had' = Had(book)
    /\ ob' = OrderBook_update(book, callBids', callAsks')
    /\ stdout' = <<OrderBook_print(ob')>>
    /\ rendered' = TRUE
    /\ nPrints' = 1
    /\ calls' = <<"update", "print">>

\* the type test left out
IsDataMessageAnyType(body) == body.json

\* api.rs 179-180: the text parses and its "type" is "message"
IsDataMessage(body) == body.json /\ body.type = JStr("message")

\* a text that is not JSON treated as an error that ends the loop
LoopExitOnBadText(frame) ==
    CASE frame.kind = "None" -> "End"
      [] frame.kind = "Close" -> "Closed"
      [] frame.kind = "Err" -> "Error"
      [] frame.kind = "Text" /\ ~frame.body.json -> "Error"
      [] OTHER -> ""

\* the catch-all arm breaking as the Close arm does
LoopExitOnOther(frame) ==
    CASE frame.kind = "None" -> "End"
      [] frame.kind = "Close" -> "Closed"
      [] frame.kind = "Err" -> "Error"
      [] frame.kind = "Other" -> "Closed"
      [] OTHER -> ""

\* api.rs 174-195: which values of read.next().await leave the loop, and why
LoopExit(frame) ==
    CASE frame.kind = "None" -> "End"
      [] frame.kind = "Close" -> "Closed"
      [] frame.kind = "Err" -> "Error"
      [] OTHER -> ""

\* api.rs 176-184
RecvText(frame) ==
    /\ pc = "Streaming"
    /\ frame.kind = "Text"
    /\ LoopExit(frame) = ""
    /\ msg' = frame
    /\ IF IsDataMessage(frame.body)
       THEN update_order_book(ob, frame.body)
       ELSE Quiet
    /\ UNCHANGED <<pc, cred, result, diag, endCause, mainResult,
                   nCredReq, nConnect, nSubSend>>

\* api.rs 193: Binary, Ping, Pong, Frame
RecvOther(frame) ==
    /\ pc = "Streaming"
    /\ frame.kind = "Other"
    /\ LoopExit(frame) = ""
    /\ msg' = frame
    /\ Quiet
    /\ UNCHANGED <<pc, cred, result, diag, endCause, mainResult,
                   nCredReq, nConnect, nSubSend>>

\* api.rs 174, 185-192, 197: the loop is left and Ok(()) returned
RecvLast(frame) ==
    /\ pc = "Streaming"
    /\ LoopExit(frame) # ""
    /\ msg' = frame
    /\ endCause' = LoopExit(frame)
    /\ pc' = "Terminated"
    /\ result' = "Ok"
    /\ Quiet
    /\ UNCHANGED <<cred, diag, mainResult, nCredReq, nConnect, nSubSend>>

\* main calling start_websocket_listener again once it has returned
MainRestarting ==
    /\ pc = "Terminated"
    /\ pc' = "Init"
    /\ Quiet
    /\ UNCHANGED <<cred, msg, result, diag, endCause, mainResult,
                   nCredReq, nConnect, nSubSend>>

\* main.rs 15-17: `?` hands an Err on, a panic unwinds through main
MainReturn ==
    /\ pc = "Terminated"
    /\ pc' = "Exited"
    /\ mainResult' = result
    /\ Quiet
    /\ UNCHANGED <<cred, msg, result, diag, endCause, nCredReq, nConnect, nSubSend>>

Next ==
    \/ \E resp \in CredResponses : FetchCredential(resp)
    \/ ExtractCredential
    \/ \E ok \in BOOLEAN : Connect(ok)
    \/ \E ok \in BOOLEAN : Subscribe(ok)
    \/ \E frame \in Frames : AwaitAck(frame)
    \/ \E frame \in Frames : RecvText(frame)
    \/ \E frame \in Frames : RecvOther(frame)
    \/ \E frame \in Frames : RecvLast(frame)
    \/ MainReturn

Spec == Init /\ [][Next]_vars

(***************************************************************************)
(* Properties.                                                             *)
(***************************************************************************)
Min(a, b) == IF a < b THEN a ELSE b
PricesOf(side) == {side[i].price : i \in 1..Len(side)}
LevelsOf(side) == {<<side[i].price, side[i].size>> : i \in 1..Len(side)}
ArgPrices(args) == {args[i][1] : i \in 1..Len(args)}
ArgLevels(args) == {args[i] : i \in 1..Len(args)}
\* the entries of a bids / asks member that lie within the depth
FirstEntries(field) ==
    {field.items[i] : i \in 1..Min(Len(field.items), MAX_DEPTH)}
\* the last step applied the data message held in msg
Applied == calls = <<"update", "print">> /\ msg.kind = "Text"

C2_SidesStrictlyIncreasing ==
    \A side \in {ob.bids, ob.asks} :
        \A i, j \in 1..Len(side) :
            i < j => total_cmp(side[i].price, side[j].price) = "Less"

\* the bids were supplied out of order and with a repeated price
C2_Witness ==
    /\ calls = <<"update">>
    /\ \E i, j \in 1..Len(callBids) :
          i < j /\ total_cmp(callBids[i][1], callBids[j][1]) = "Greater"
    /\ Len(ob.bids) < Len(callBids)
    /\ Len(ob.bids) >= 3

\* C3: in a run of the pipeline each side holds at most 5 entries, and the
\* vectors handed to update are the first 5 entries of the message's arrays.
C3_DepthBound ==
    /\ Len(ob.bids) <= MAX_DEPTH
    /\ Len(ob.asks) <= MAX_DEPTH
    /\ Applied =>
          /\ Len(callBids) = Min(Len(msg.body.bids.items), MAX_DEPTH)
          /\ Len(callAsks) = Min(Len(msg.body.asks.items), MAX_DEPTH)

\* a message with more than 5 bids was applied and 5 were kept
C3_Witness ==
    /\ Applied
    /\ Len(msg.body.bids.items) > MAX_DEPTH
    /\ Len(ob.bids) = MAX_DEPTH

\* C4: while Streaming, a text message that parses but whose type is not
\* "message" (or is absent) leaves the book as it is, renders nothing and
\* leaves the pipeline Streaming.
C4_OtherTypesIgnored ==
    [][(/\ pc = "Streaming"
        /\ msg'.kind = "Text"
        /\ msg'.body.json
        /\ msg'.body.type # JStr("message"))
       => (/\ ob' = ob
           /\ calls' = <<>>
           /\ stdout' = <<>>
           /\ rendered' = rendered
           /\ pc' = "Streaming")]_vars

\* such a message, carrying levels of its own, arrived after the book was
\* filled
C4_Witness ==
    /\ pc = "Streaming"
    /\ msg.kind = "Text"
    /\ msg.body.json
    /\ msg.body.type # JStr("message")
    /\ msg.body.bids.t = "array"
    /\ msg.body.bids.items # <<>>
    /\ calls = <<>>
    /\ rendered
    /\ ob.bids # <<>>

\* C5: a credential response without data.token or without
\* data.instanceServers[0].endpoint ends the run with an error; nothing is
\* connected, sent, updated or rendered in that run.
C5_MissingCredentialIsFatal ==
    (cred.http /\ cred.json /\ (~cred.token \/ ~cred.endpoint)) =>
        /\ pc \in {"CredentialFetched", "Terminated", "Exited"}
        /\ pc # "CredentialFetched" => result = "Err"
        /\ pc = "Exited" => mainResult = "Err"
        /\ nConnect = 0
        /\ nSubSend = 0
        /\ ob = OrderBook_new
        /\ ~rendered

\* the response had an endpoint and no token, and the run has failed
C5_Witness ==
    /\ cred.http /\ cred.json /\ cred.endpoint /\ ~cred.token
    /\ pc = "Exited"
    /\ mainResult = "Err"
    /\ diag = "WebSocket Token not found"

\* C6: every failure before Streaming is returned by
\* start_websocket_listener as the error outcome, and reaches main as that
\* outcome, with the book empty and nothing rendered.
C6_EarlyFailuresReturnErr ==
    (pc \in {"Terminated", "Exited"} /\ endCause = "") =>
        /\ result = "Err"
        /\ pc = "Exited" => mainResult = "Err"
        /\ ob = OrderBook_new
        /\ ~rendered

\* C7: a loop ended by a close message or a transport error is surfaced to
\* the caller: the outcome differs from that of a successful return.
C7_TerminationSurfaced ==
    (pc \in {"Terminated", "Exited"} /\ endCause \in {"Closed", "Error"}) =>
        result # "Ok"

\* C8: while Streaming, a text message that is not JSON is skipped: the book
\* is as it was, nothing is rendered, the pipeline stays Streaming; and the
\* data message that follows it is applied.
C8_MalformedTextSkipped ==
    [][/\ (pc = "Streaming" /\ msg'.kind = "Text" /\ ~msg'.body.json)
          => (/\ ob' = ob
              /\ calls' = <<>>
              /\ stdout' = <<>>
              /\ rendered' = rendered
              /\ pc' = "Streaming")
       /\ (/\ pc = "Streaming"
           /\ msg.kind = "Text" /\ ~msg.body.json
           /\ msg'.kind = "Text" /\ msg'.body.json
           /\ msg'.body.type = JStr("message"))
          => (/\ calls' = <<"update", "print">>
              /\ PricesOf(ob'.bids)
                    = {ExtractPrice(e) : e \in FirstEntries(msg'.body.bids)}
              /\ PricesOf(ob'.asks)
                    = {ExtractPrice(e) : e \in FirstEntries(msg'.body.asks)}
              /\ pc' = "Streaming")]_vars

\* a malformed text arrived after the book was filled
C8_Witness ==
    /\ pc = "Streaming"
    /\ msg.kind = "Text"
    /\ ~msg.body.json
    /\ calls = <<>>
    /\ rendered
    /\ ob.bids # <<>>
    /\ ob.asks # <<>>

\* C9, as claimed: the receive loop is left only on a close frame or a
\* transport error.
C9_OnlyCloseOrErrorEndsLoop ==
    [][(pc = "Streaming" /\ pc' # "Streaming") => msg'.kind \in {"Close", "Err"}]_vars

\* C9, amended: the receive loop is left only on a close frame, a transport
\* error or the end of the message stream; any other message leaves the
\* pipeline Streaming.
C9_OnlyCloseErrorOrEndEndsLoop ==
    [][/\ (pc = "Streaming" /\ pc' # "Streaming")
          => msg'.kind \in {"Close", "Err", "None"}
       /\ (pc = "Streaming" /\ msg'.kind \in {"Text", "Other"})
          => pc' = "Streaming"]_vars

\* the stream ended with no close frame and no error and the loop was left
C9_Witness ==
    /\ pc = "Terminated"
    /\ msg.kind = "None"
    /\ endCause = "End"
    /\ result = "Ok"

\* C10: a data message whose bids or asks member is missing or no array is
\* applied all the same: that side becomes empty and the other side holds
\* the message's levels.
C10_MissingSideStillReplaces ==
    [][(/\ pc = "Streaming"
        /\ msg'.kind = "Text"
        /\ msg'.body.json
        /\ msg'.body.type = JStr("message"))
       => (/\ calls' = <<"update", "print">>
           /\ msg'.body.bids.t # "array" => ob'.bids = <<>>
           /\ msg'.body.asks.t # "array" => ob'.asks = <<>>
           /\ msg'.body.bids.t = "array" =>
                 PricesOf(ob'.bids)
                    = {ExtractPrice(e) : e \in FirstEntries(msg'.body.bids)}
           /\ msg'.body.asks.t = "array" =>
                 PricesOf(ob'.asks)
                    = {ExtractPrice(e) : e \in FirstEntries(msg'.body.asks)})]_vars

\* a message without bids was applied to a book that held bids
C10_Witness ==
    /\ Applied
    /\ msg.body.bids.t = "absent"
    /\ had.bids
    /\ ob.bids = <<>>
    /\ msg.body.asks.t = "array"
    /\ ob.asks # <<>>

\* the table shows, under the label, the levels and nothing else: every row
\* is one of the levels, every price has a row, and no price has two
ShowsExactly(table, label, levels) ==
    /\ \A k \in 2..Len(table) :
          table[k][1] = label =>
             \E i \in 1..Len(levels) :
                /\ table[k][3] = F64ToString(levels[i][1])
                /\ table[k][4] = I64ToString(levels[i][2])
    /\ \A i \in 1..Len(levels) :
          \E k \in 2..Len(table) :
             table[k][1] = label /\ table[k][3] = F64ToString(levels[i][1])
    /\ Cardinality({k \in 2..Len(table) : table[k][1] = label})
          = Cardinality(ArgPrices(levels))

\* C11: a step that reads a text frame whose JSON has "type" = "message"
\* calls update once and then print once, within that one step, and the one
\* table written shows the levels extracted from that frame and no others;
\* every other step calls neither, writes no table and leaves the book alone.
C11_AcceptedMessageRendersOnce ==
    /\ [][IF /\ pc = "Streaming"
              /\ msg'.kind = "Text"
              /\ msg'.body.json
              /\ msg'.body.type = JStr("message")
           THEN calls' = <<"update", "print">> /\ Len(stdout') = 1
           ELSE calls' = <<>> /\ stdout' = <<>> /\ ob' = ob]_vars
    /\ [](calls = <<"update", "print">> =>
            /\ callBids = ExtractLevels(msg.body.bids)
            /\ callAsks = ExtractLevels(msg.body.asks)
            /\ stdout[1][1] = HeaderRow
            /\ \A k \in 2..Len(stdout[1]) :
                  stdout[1][k][1] \in {"Bids", "Asks"}
            /\ ShowsExactly(stdout[1], "Bids", callBids)
            /\ ShowsExactly(stdout[1], "Asks", callAsks))

\* a second data message was applied to a book that held levels on both
\* sides, and the table shows its levels
C11_Witness ==
    /\ Applied
    /\ had.bids /\ had.asks
    /\ Len(stdout) = 1
    /\ Len(stdout[1]) >= 4
    /\ Len(stdout[1]) = 1 + Len(callBids) + Len(callAsks)

\* C12: OrderBook::print reads the book and changes nothing in it: a call of
\* print leaves both sides as they were, and a call that follows another call
\* of print, with no update between them, writes the same table again.
C12_PrintIsPureRead ==
    [][calls' = <<"print">> =>
          /\ ob' = ob
          /\ nPrints >= 1 => stdout' = stdout]_vars

\* print was called twice in a row on a book with levels on both sides
C12_Witness ==
    /\ calls = <<"print">>
    /\ nPrints = 2
    /\ ob.bids # <<>>
    /\ Len(ob.asks) >= 2
    /\ stdout = <<OrderBook_print(ob)>>

\* C13: the table print writes has, below the header, one row per level the
\* book holds: first a "Bids" row for every bid, in strictly increasing
\* price order, then an "Asks" row for every ask, in strictly decreasing
\* price order; each row carries the price and the size of its level.
C13_RowsBidsUpAsksDown ==
    calls = <<"print">> =>
       LET table == stdout[1]
           nb == Len(ob.bids)
           na == Len(ob.asks)
       IN  /\ Len(stdout) = 1
           /\ Len(table) = 1 + nb + na
           /\ \A k \in 1..nb :
                 /\ table[1 + k] = <<"Bids", "ETHUSDTM",
                                     F64ToString(ob.bids[k].price),
                                     I64ToString(ob.bids[k].size)>>
                 /\ \A l \in 1..nb :
                       k < l => total_cmp(ob.bids[k].price,
                                          ob.bids[l].price) = "Less"
           /\ \A k \in 1..na :
                 /\ table[1 + nb + k] = <<"Asks", "ETHUSDTM",
                                          F64ToString(ob.asks[na + 1 - k].price),
                                          I64ToString(ob.asks[na + 1 - k].size)>>
                 /\ \A l \in 1..na :
                       k < l => total_cmp(ob.asks[na + 1 - k].price,
                                          ob.asks[na + 1 - l].price) = "Greater"

\* a book with a bid and three asks or more was printed, and the last row of
\* the table is the lowest ask
C13_Witness ==
    /\ calls = <<"print">>
    /\ Len(ob.bids) >= 1
    /\ Len(ob.asks) >= 3
    /\ stdout[1][Len(stdout[1])][3] = F64ToString(ob.asks[1].price)
    /\ stdout[1][2][1] = "Bids"

\* a JSON number written out as text ("1", "1.0", "-0.0"); any other value
\* as it is
Spelled(j) ==
    IF j.t = "int" THEN JStr(ToString(j.v))
    ELSE IF j.t = "float"
         THEN JStr((IF IsNeg(j.v) THEN "-" ELSE "") \o ToString(Mag(j.v)) \o ".0")
         ELSE j
SpelledField(field) ==
    [field EXCEPT !.items =
        [i \in 1..Len(field.items) |->
            [k \in DOMAIN field.items[i] |-> Spelled(field.items[i][k])]]]
\* the value is no number and no text that parses as one
NoF64(j) == j.t \notin {"int", "float"} /\ (j.t = "str" => ParseF64(j.s) = None)
NoI64(j) == j.t # "int" /\ (j.t = "str" => ParseI64(j.s) = None)
ExtractedTolerantly(field, levels, side) ==
    /\ Len(levels) = Min(Len(field.items), MAX_DEPTH)
    /\ levels = ExtractLevels(SpelledField(field))
    /\ \A i \in 1..Len(levels) :
          /\ NoF64(Index(field.items[i], 0)) => levels[i][1] = PosZero
          /\ NoI64(Index(field.items[i], 1)) => levels[i][2] = 0
    /\ PricesOf(side) = ArgPrices(levels)

\* C14: the levels extracted from a message are the ones the same message
\* gives with every number in it written as text; a price that is neither a
\* number nor a text that parses as one is extracted as 0.0, such a size as
\* 0; and whatever the entries are, every entry within the depth yields a
\* level and all of them are applied to the book.
C14_ExtractionTolerant ==
    Applied =>
       /\ ExtractedTolerantly(msg.body.bids, callBids, ob.bids)
       /\ ExtractedTolerantly(msg.body.asks, callAsks, ob.asks)

\* a message whose bids mix text-coded numbers, an entry of no use and a
\* native entry was applied, and all four levels are in the book
C14_Witness ==
    /\ Applied
    /\ msg.body.bids.items = MixedEntries
    /\ callBids = << <<Fin(2), 1>>, <<PosZero, 0>>, <<NegZero, 2>>, <<Fin(1), 2>> >>
    /\ LevelsOf(ob.bids) = ArgLevels(callBids)

\* the levels handed to the last update call, as Items
SuppliedItems ==
    {Item(l[1], l[2]) : l \in ArgLevels(callBids) \cup ArgLevels(callAsks)}

\* C15: Item's equality and Item's ordering both go by the price alone: for
\* any two levels, a == b exactly when a.cmp(&b) is Equal, so two levels of
\* one price and different sizes are equal.
C15_EqualityIsByPrice ==
    \A a, b \in SuppliedItems : ItemEq(a, b) <=> (cmp(a, b) = "Equal")

\* C16: OrderBook::update keeps each side to 5 entries by itself: whatever
\* vectors a caller hands it, entries are popped so that after the call
\* neither side holds more than 5.
C16_UpdatePopsToFive ==
    calls = <<"update">> =>
       /\ Len(ob.bids) <= MAX_DEPTH
       /\ Len(ob.asks) <= MAX_DEPTH

\* C17: the receive loop is entered only from the handshake, after the one
\* subscription request has been sent and the read that follows it has
\* yielded a message; no OrderBook method is called before the loop; and
\* the credential request, the connect, the subscription send and the first
\* read happen in that order.
C17_StreamingOnlyAfterAck ==
    [][/\ (pc' = "Streaming" /\ pc # "Streaming") =>
             /\ pc = "AwaitAck"
             /\ nSubSend = 1
             /\ msg'.kind \in {"Text", "Other", "Close"}
       /\ calls' # <<>> => pc = "Streaming"
       /\ nConnect' # nConnect => (nCredReq = 1 /\ nSubSend = 0)
       /\ nSubSend' # nSubSend => (nConnect = 1 /\ nSubSend' = 1)
       /\ msg' # msg => nSubSend = 1]_vars

\* C18: once start_websocket_listener has ended, nothing more happens to the
\* run but main's return: no frame is read, no OrderBook method is called,
\* the book and the output stay as they are, and no request is sent again;
\* in the whole run the credential request, the connect and the
\* subscription send happen at most once each.
C18_TerminatedIsTerminal ==
    [][/\ pc \in {"Terminated", "Exited"} =>
             /\ pc' \in {"Terminated", "Exited"}
             /\ msg' = msg
             /\ calls' = <<>>
             /\ stdout' = <<>>
             /\ ob' = ob
             /\ rendered' = rendered
             /\ <<nCredReq', nConnect', nSubSend'>> = <<nCredReq, nConnect, nSubSend>>
       /\ nCredReq' <= 1
       /\ nConnect' <= 1
       /\ nSubSend' <= 1]_vars

\* a close frame ended a run that had applied messages, and main returned
C18_Witness ==
    /\ pc = "Exited"
    /\ endCause = "Closed"
    /\ msg.kind = "Close"
    /\ rendered
    /\ ob.bids # <<>>
    /\ <<nCredReq, nConnect, nSubSend>> = <<1, 1, 1>>

\* the entry of the side with each price is the first level of that price in
\* the vector the side was built from
FirstSupplied(side, args) ==
    \A k \in 1..Len(side) :
       \E i \in 1..Len(args) :
          /\ args[i][1] = side[k].price
          /\ \A j \in 1..(i - 1) : args[j][1] # side[k].price
          /\ side[k].size = args[i][2]

\* C19: when one update call supplies several levels of one price for a
\* side, the side keeps the first of them: the size stored with the price is
\* that of its first occurrence in the vector.
C19_FirstOfEqualPricesSurvives ==
    /\ FirstSupplied(ob.bids, callBids)
    /\ FirstSupplied(ob.asks, callAsks)

\* update was given two bids of one price and different sizes, and the book
\* holds the size of the first
C19_Witness ==
    /\ calls = <<"update">>
    /\ \E i, j \in 1..Len(callBids) :
          /\ i < j
          /\ callBids[i][1] = callBids[j][1]
          /\ callBids[i][2] # callBids[j][2]
          /\ \E k \in 1..Len(ob.bids) :
                /\ ob.bids[k].price = callBids[i][1]
                /\ ob.bids[k].size = callBids[i][2]

====
